---- MODULE Spec2Model ----
(***************************************************************************)
(* Model of src/server.py: the liveness verification intake server.        *)
(*                                                                         *)
(* POST /verify (verify_endpoint, save_to_txt_file), GET /files            *)
(* (list_files) and GET /download/<filename> (download_file) share one     *)
(* upload directory and the wall clock.  A request handler is a process    *)
(* whose steps are the places where it touches the directory or the clock; *)
(* everything between two such places is local and is done in one step.    *)
(*                                                                         *)
(* A file is a sequence (bytes for a video, written lines for a            *)
(* transcript).  open(path, 'w' / 'wb') creates or truncates the file; the *)
(* data reaches the file when the buffered writer is flushed, at offset 0  *)
(* of the writer's own descriptor.                                         *)
(***************************************************************************)
EXTENDS Naturals, Sequences, FiniteSets, TLC

VARIABLES
    clock,      \* the wall clock, in whole seconds
    dir,        \* the upload directory: name -> [kind, data]
    pc,         \* per request: where the handler is
    req,        \* per request: the submission being handled
    pos,        \* per request: read position of video_file.stream
    video_size, \* per request: local video_size
    timestamp,  \* per request: local timestamp
    txt_filepath, \* per request: local txt_filepath of save_to_txt_file
    buf,        \* per request: what the transcript's file object wrote
    txt,        \* per request: what save_to_txt_file returned
    ioerr,      \* per request: the I/O failure the environment injected
    resp,       \* per request: the response sent
    got,        \* per request: what the client's follow-up download returned
    lastWriter, \* per file name: the request that wrote to it last
    lpc,        \* GET /files: where list_files is
    lnames,     \* GET /files: names of os.listdir still to visit
    lfiles,     \* GET /files: local files
    lseen,      \* GET /files: regular files in the directory at call time
    lresp       \* GET /files: the response sent

vars == <<clock, dir, pc, req, pos, video_size, timestamp, txt_filepath, buf, txt, ioerr,
          resp, got, lastWriter, lpc, lnames, lfiles, lseen, lresp>>

reqVars == <<pc, req, pos, video_size, timestamp, txt_filepath, buf, txt, ioerr, resp, got>>
listVars == <<lpc, lnames, lfiles, lseen, lresp>>

----------------------------------------------------------------------------
(* Bounds *)

NumReq == 2
MaxClock == 1
MaxVideoLen == 2

Procs == 1..NumReq
Bytes == {7, 9}
Devices == {"d1", "d2"}

----------------------------------------------------------------------------
(* Values *)

UPLOAD_DIR == "uploads"

required_fields == <<"device_id", "is_compromised", "gps_location", "ip_address">>

Required == {required_fields[i] : i \in 1..Len(required_fields)}

NoName == <<>>

VideoFilename(id, ts) == <<"mobile_liveness", id, ts, "mp4">>

TxtFilename(id, ts) == <<"device_data", id, ts, "txt">>

PathJoin(d, name) == <<d, name>>

Basename(path) == path[Len(path)]

Failed == <<"failed">>

File(data) == [kind |-> "file", data |-> data]

Directory == [kind |-> "dir", data |-> <<>>]

IsFile(d, name) == name \in DOMAIN d /\ d[name].kind = "file"

RegularFiles(d) == {n \in DOMAIN d : d[n].kind = "file"}

\* A write of `data` at offset 0 through a descriptor of its own: what lies
\* beyond the written part stays.
WriteAt0(old, data) ==
    [i \in 1..(IF Len(old) > Len(data) THEN Len(old) ELSE Len(data)) |->
        IF i <= Len(data) THEN data[i] ELSE old[i]]

----------------------------------------------------------------------------
(* Submissions *)

\* What json.loads returns for the 'data' part.  `has` holds the required
\* field names f for which Python's `f in device_data` is true: the keys of an
\* object, the elements of an array, the substrings of a string.  `gps` holds
\* the keys of device_data['gps_location'].
Meta(type, has, id, gps, platform) ==
    [type |-> type, has |-> has, id |-> id, gps |-> gps, platform |-> platform]

\* The 'data' form field: absent, or a text that is well-formed JSON or not.
DataPart(present, wellformed, meta) ==
    [present |-> present, wellformed |-> wellformed, meta |-> meta]

NullMeta == Meta("null", {}, "", {}, FALSE)

GpsKeys == {"latitude", "longitude"}

FullObjects ==
    {Meta("object", Required, id, gps, pf) :
        id \in Devices, gps \in SUBSET GpsKeys, pf \in BOOLEAN}

PartialObjects ==
    {Meta("object", has, "d1", GpsKeys, FALSE) : has \in (SUBSET Required) \ {Required}}

NonObjects ==
    {Meta("array", Required, "", {}, FALSE), Meta("array", {}, "", {}, FALSE),
     Meta("string", Required, "", {}, FALSE),
     Meta("number", {}, "", {}, FALSE), NullMeta}

Metas == FullObjects \cup PartialObjects \cup NonObjects

DataParts ==
    {DataPart(FALSE, FALSE, NullMeta), DataPart(TRUE, FALSE, NullMeta)}
        \cup {DataPart(TRUE, TRUE, m) : m \in Metas}

Payloads == UNION {[1..n -> Bytes] : n \in 0..MaxVideoLen}

\* The 'liveness_video' file part.
VideoPart(present, filename, payload) ==
    [present |-> present, filename |-> filename, payload |-> payload]

VideoParts ==
    {VideoPart(FALSE, "", <<>>)}
        \cup {VideoPart(TRUE, fn, p) : fn \in {"", "clip.mp4"}, p \in Payloads}

\* A Content-Type header is the sequence of its tokens, <<>> when the header
\* is absent or empty: "multipart/form-data; boundary=x" and
\* "text/plain; note=multipart/form-data".
MULTIPART == <<"multipart/form-data", "boundary", "x">>

ContentTypes ==
    {<<>>, <<"application/json">>, MULTIPART, <<"text/plain", "note", "multipart/form-data">>}

Submission(ctype, data, video) == [ctype |-> ctype, data |-> data, video |-> video]

\* Every shape of request a client may send.
Submissions ==
    {Submission(ct, d, v) : ct \in ContentTypes, d \in DataParts, v \in VideoParts}

\* The requests of concurrent clients: submissions that pass validation, from
\* either device, with and without latitude/longitude, of different lengths.
RaceSubmissions ==
    {Submission(MULTIPART, DataPart(TRUE, TRUE, Meta("object", Required, id, gps, FALSE)), v) :
        id \in Devices, gps \in {GpsKeys, {}},
        v \in {VideoPart(TRUE, "a.mp4", <<7>>), VideoPart(TRUE, "b.mp4", <<9, 9>>)}}

NoSubmission == Submission(<<>>, DataPart(FALSE, FALSE, NullMeta), VideoPart(FALSE, "", <<>>))

----------------------------------------------------------------------------
(* Responses *)

Response(code, status, error, details, id, size, video, data, at) ==
    [code |-> code, status |-> status, error |-> error, details |-> details,
     device_id |-> id, video_size |-> size, video_saved_as |-> video,
     data_saved_as |-> data, received_at |-> at]

NoResponse == Response(0, "", <<>>, "", "", 0, NoName, NoName, 0)

BadRequest(error) == Response(400, "", error, "", "", 0, NoName, NoName, 0)

InternalErrorNoDetails(msg) ==
    Response(500, "", <<"Internal server error">>, "", "", 0, NoName, NoName, 0)

\* except Exception as e: ... "details": str(e)
InternalError(msg) ==
    Response(500, "", <<"Internal server error">>, msg, "", 0, NoName, NoName, 0)

NotIterable == "TypeError: argument is not iterable"
NotSubscriptable == "TypeError: indices must be integers"
IOError == "OSError"

----------------------------------------------------------------------------
(* Validation, lines 69-114 *)

\* 'multipart/form-data' in request.content_type: the text occurs anywhere in
\* the header.
HasMultipart(ctype) == \E i \in 1..Len(ctype) : ctype[i] = "multipart/form-data"

\* json.loads: the decoded value, or JSONDecodeError.
Loads(data) ==
    IF data.wellformed THEN [ok |-> TRUE, val |-> data.meta]
    ELSE [ok |-> FALSE, val |-> NullMeta]

\* `field in device_data` raises TypeError on a number or null.
SupportsIn(meta) == meta.type \in {"object", "array", "string"}

\* device_data['device_id'] raises TypeError on anything but an object.
Subscriptable(meta) == meta.type = "object"

MissingIndexes(meta) == {i \in 1..Len(required_fields) : required_fields[i] \notin meta.has}

\* The loop over required_fields returns at the first field that is missing.
FirstMissing(meta) ==
    required_fields[CHOOSE i \in MissingIndexes(meta) : \A j \in MissingIndexes(meta) : i <= j]

Accept == [ok |-> TRUE, resp |-> NoResponse]

Reject(r) == [ok |-> FALSE, resp |-> r]

ValidateJsonUncaught(s) ==
    IF ~HasMultipart(s.ctype)
    THEN Reject(BadRequest(<<"Content type must be multipart/form-data">>))
    ELSE IF ~s.data.present THEN Reject(BadRequest(<<"Missing 'data' part">>))
    ELSE IF ~Loads(s.data).ok THEN Reject(InternalError("JSONDecodeError"))
    ELSE IF ~SupportsIn(Loads(s.data).val) THEN Reject(InternalError(NotIterable))
    ELSE IF MissingIndexes(Loads(s.data).val) # {}
    THEN Reject(BadRequest(<<"Missing required field", FirstMissing(Loads(s.data).val)>>))
    ELSE IF ~s.video.present THEN Reject(BadRequest(<<"Missing 'liveness_video' file">>))
    ELSE IF s.video.filename = "" THEN Reject(BadRequest(<<"No video file selected">>))
    ELSE IF ~Subscriptable(Loads(s.data).val) THEN Reject(InternalError(NotSubscriptable))
    ELSE Accept

\* The checks of verify_endpoint in the order of the code; an exception raised
\* on the way is caught by the outer handler (line 149).
Validate(s) ==
    IF ~(s.ctype # <<>> /\ HasMultipart(s.ctype))
    THEN Reject(BadRequest(<<"Content type must be multipart/form-data">>))
    ELSE IF ~s.data.present THEN Reject(BadRequest(<<"Missing 'data' part">>))
    ELSE IF ~Loads(s.data).ok THEN Reject(BadRequest(<<"Invalid JSON in 'data' part">>))
    ELSE IF ~SupportsIn(Loads(s.data).val) THEN Reject(InternalError(NotIterable))
    ELSE IF MissingIndexes(Loads(s.data).val) # {}
    THEN Reject(BadRequest(<<"Missing required field", FirstMissing(Loads(s.data).val)>>))
    ELSE IF ~s.video.present THEN Reject(BadRequest(<<"Missing 'liveness_video' file">>))
    ELSE IF s.video.filename = "" THEN Reject(BadRequest(<<"No video file selected">>))
    ELSE IF ~Subscriptable(Loads(s.data).val) THEN Reject(InternalError(NotSubscriptable))
    ELSE Accept

\* device_data of a request that passed validation.
DeviceData(r) == Loads(req[r].data).val

----------------------------------------------------------------------------
(* The video stream, lines 116-122 *)

\* video_file.read(): everything from the read position to the end.
StreamRead(payload, p) == SubSeq(payload, p + 1, Len(payload))

SeekSkipped(payload) == Len(payload)

\* The read position after read() and stream.seek(0).
PosAfterSeek(payload) == 0

----------------------------------------------------------------------------
(* The transcript, save_to_txt_file lines 33-52 *)

\* One element per f.write call.
AllLines(meta, fname, size, ts, now) ==
    << <<"=== DEVICE VERIFICATION DATA ===">>,
       <<"Timestamp", now>>,
       <<"Received At", now>>,
       <<"--- DEVICE INFORMATION ---">>,
       <<"Device ID", meta.id>>,
       <<"Is Compromised">>,
       <<"Platform", IF meta.platform THEN "android" ELSE "unknown">>,
       <<"IP Address">>,
       <<"--- LOCATION DATA ---">>,
       <<"Latitude">>,
       <<"Longitude">>,
       <<"--- VIDEO INFORMATION ---">>,
       <<"Video Filename", fname>>,
       <<"Video Size", size>>,
       <<"Video Saved As", VideoFilename(meta.id, ts)>>,
       <<"--- RAW JSON DATA ---">>,
       <<"raw", meta>> >>

\* The number of f.write calls made before device_data['gps_location'][...]
\* raises KeyError, or all of them.
LinesWritten(meta) ==
    IF "latitude" \notin meta.gps THEN 9
    ELSE IF "longitude" \notin meta.gps THEN 10
    ELSE 17

FormatComplete(meta) == LinesWritten(meta) = 17

TranscriptLines(meta, fname, size, ts, now) ==
    SubSeq(AllLines(meta, fname, size, ts, now), 1, LinesWritten(meta))

TxtTimestampNow(r) == clock

\* The timestamp parameter of save_to_txt_file (line 134 passes the local).
TxtTimestamp(r) == timestamp[r]

UploadNameServer(r) == "mobile_liveness.mp4"

\* The video_filename parameter of save_to_txt_file: line 134 passes the
\* client's video_file.filename.
UploadName(r) == req[r].video.filename

VideoNameOf(r) == VideoFilename(DeviceData(r).id, timestamp[r])

TxtNameOf(r) == TxtFilename(DeviceData(r).id, TxtTimestamp(r))

----------------------------------------------------------------------------
(* State *)

NoDownload == [code |-> 0, body |-> <<>>]

NoListing == [code |-> 0, files |-> <<>>, count |-> 0]

EmptyDir == <<>>

Init ==
    /\ clock = 0
    /\ dir = EmptyDir
    /\ pc = [r \in Procs |-> "idle"]
    /\ req = [r \in Procs |-> NoSubmission]
    /\ pos = [r \in Procs |-> 0]
    /\ video_size = [r \in Procs |-> 0]
    /\ timestamp = [r \in Procs |-> 0]
    /\ txt_filepath = [r \in Procs |-> NoName]
    /\ buf = [r \in Procs |-> <<>>]
    /\ txt = [r \in Procs |-> NoName]
    /\ ioerr = [r \in Procs |-> "none"]
    /\ resp = [r \in Procs |-> NoResponse]
    /\ got = [r \in Procs |-> NoDownload]
    /\ lastWriter = <<>>
    /\ lpc = "idle"
    /\ lnames = {}
    /\ lfiles = <<>>
    /\ lseen = 0
    /\ lresp = NoListing

Put(d, name, file) == [n \in DOMAIN d \cup {name} |-> IF n = name THEN file ELSE d[n]]

----------------------------------------------------------------------------
(* POST /verify *)

\* Lines 63-122: the checks, then read() for the size and seek(0).  Requests
\* are numbered in the order of their arrival.
Submit(r, S) ==
    /\ pc[r] = "idle"
    /\ \A q \in 1..(r - 1) : pc[q] # "idle"
    /\ \E s \in S :
        /\ req' = [req EXCEPT ![r] = s]
        /\ IF Validate(s).ok
           THEN /\ video_size' = [video_size EXCEPT ![r] = Len(StreamRead(s.video.payload, 0))]
                /\ pos' = [pos EXCEPT ![r] = PosAfterSeek(s.video.payload)]
                /\ pc' = [pc EXCEPT ![r] = "stamp"]
                /\ resp' = resp
           ELSE /\ resp' = [resp EXCEPT ![r] = Validate(s).resp]
                /\ pc' = [pc EXCEPT ![r] = "done"]
                /\ UNCHANGED <<video_size, pos>>
    /\ UNCHANGED <<clock, dir, timestamp, txt_filepath, buf, txt, ioerr, got, lastWriter>>
    /\ UNCHANGED listVars

\* A single client sends one request of any shape.
SubmitAny(r) ==
    /\ \A q \in Procs : pc[q] = "idle"
    /\ Submit(r, Submissions)

\* Concurrent clients send requests that pass validation.
SubmitRace(r) == Submit(r, RaceSubmissions)

\* Line 125: timestamp = datetime.now().strftime("%Y%m%d_%H%M%S")
Timestamp(r) ==
    /\ pc[r] = "stamp"
    /\ timestamp' = [timestamp EXCEPT ![r] = clock]
    /\ pc' = [pc EXCEPT ![r] = "vopen"]
    /\ UNCHANGED <<clock, dir, req, pos, video_size, txt_filepath, buf, txt, ioerr, resp, got, lastWriter>>
    /\ UNCHANGED listVars

\* Line 130, video_file.save: open(video_filepath, "wb").
VidOpen(r) ==
    /\ pc[r] = "vopen"
    /\ \E ok \in BOOLEAN :
        IF ok
        THEN /\ dir' = Put(dir, VideoNameOf(r), File(<<>>))
             /\ pc' = [pc EXCEPT ![r] = "vwrite"]
             /\ UNCHANGED <<ioerr, resp>>
        ELSE /\ ioerr' = [ioerr EXCEPT ![r] = "vopen"]
             /\ resp' = [resp EXCEPT ![r] = InternalError(IOError)]
             /\ pc' = [pc EXCEPT ![r] = "done"]
             /\ dir' = dir
    /\ UNCHANGED <<clock, req, pos, video_size, timestamp, txt_filepath, buf, txt, got, lastWriter>>
    /\ UNCHANGED listVars

\* Line 130, video_file.save: the stream is copied from its read position and
\* the file closed.
VidWrite(r) ==
    /\ pc[r] = "vwrite"
    /\ \E ok \in BOOLEAN :
        IF ok
        THEN /\ dir' = Put(dir, VideoNameOf(r),
                           File(WriteAt0(dir[VideoNameOf(r)].data,
                                         StreamRead(req[r].video.payload, pos[r]))))
             /\ lastWriter' = Put(lastWriter, VideoNameOf(r), r)
             /\ pc' = [pc EXCEPT ![r] = "topen"]
             /\ UNCHANGED <<ioerr, resp>>
        ELSE /\ ioerr' = [ioerr EXCEPT ![r] = "vwrite"]
             /\ resp' = [resp EXCEPT ![r] = InternalError(IOError)]
             /\ pc' = [pc EXCEPT ![r] = "done"]
             /\ UNCHANGED <<dir, lastWriter>>
    /\ UNCHANGED <<clock, req, pos, video_size, timestamp, txt_filepath, buf, txt, got>>
    /\ UNCHANGED listVars

\* save_to_txt_file lines 29-32: the path is built and the file opened; a
\* failure is caught at line 57 and None returned.
TxtOpen(r) ==
    /\ pc[r] = "topen"
    /\ txt_filepath' = [txt_filepath EXCEPT ![r] = PathJoin(UPLOAD_DIR, TxtNameOf(r))]
    /\ \E ok \in BOOLEAN :
        IF ok
        THEN /\ dir' = Put(dir, TxtNameOf(r), File(<<>>))
             /\ pc' = [pc EXCEPT ![r] = "twrite"]
             /\ UNCHANGED <<ioerr, txt>>
        ELSE /\ ioerr' = [ioerr EXCEPT ![r] = "topen"]
             /\ txt' = [txt EXCEPT ![r] = NoName]
             /\ pc' = [pc EXCEPT ![r] = "respond"]
             /\ dir' = dir
    /\ UNCHANGED <<clock, req, pos, video_size, timestamp, buf, resp, got, lastWriter>>
    /\ UNCHANGED listVars

\* save_to_txt_file lines 33-59: the f.write calls fill the file object's
\* buffer; leaving the with block, normally or by an exception, flushes it and
\* closes the file.  The path is returned only when no exception was raised.
TxtWrite(r) ==
    /\ pc[r] = "twrite"
    /\ \E ok \in BOOLEAN :
        IF ok
        THEN /\ buf' = [buf EXCEPT ![r] =
                    TranscriptLines(DeviceData(r), UploadName(r),
                                    video_size[r], TxtTimestamp(r), clock)]
             /\ dir' = Put(dir, Basename(txt_filepath[r]),
                           File(WriteAt0(dir[Basename(txt_filepath[r])].data, buf'[r])))
             /\ lastWriter' = Put(lastWriter, Basename(txt_filepath[r]), r)
             /\ txt' = [txt EXCEPT ![r] =
                    IF FormatComplete(DeviceData(r)) THEN txt_filepath[r] ELSE NoName]
             /\ ioerr' = ioerr
        ELSE /\ ioerr' = [ioerr EXCEPT ![r] = "twrite"]
             /\ txt' = [txt EXCEPT ![r] = NoName]
             /\ UNCHANGED <<buf, dir, lastWriter>>
    /\ pc' = [pc EXCEPT ![r] = "respond"]
    /\ UNCHANGED <<clock, req, pos, video_size, timestamp, txt_filepath, resp, got>>
    /\ UNCHANGED listVars

\* Lines 136-147.
Respond(r) ==
    /\ pc[r] = "respond"
    /\ resp' = [resp EXCEPT ![r] =
            Response(200, "received_ok", <<>>, "", DeviceData(r).id, video_size[r],
                     VideoNameOf(r),
                     IF txt[r] # NoName THEN Basename(txt[r]) ELSE Failed,
                     clock)]
    /\ pc' = [pc EXCEPT ![r] = "done"]
    /\ UNCHANGED <<clock, dir, req, pos, video_size, timestamp, txt_filepath, buf, txt, ioerr, got, lastWriter>>
    /\ UNCHANGED listVars

----------------------------------------------------------------------------
(* GET /download/<filename> *)

\* send_from_directory: the file's bytes, or NotFound.
SendFromDirectory(d, name) ==
    IF IsFile(d, name) THEN [code |-> 200, body |-> d[name].data]
    ELSE [code |-> 404, body |-> <<>>]

\* The client of a successful submission fetches what video_saved_as names.
Download(r) ==
    /\ pc[r] = "done"
    /\ resp[r].code = 200
    /\ got[r] = NoDownload
    /\ got' = [got EXCEPT ![r] = SendFromDirectory(dir, resp[r].video_saved_as)]
    /\ UNCHANGED <<clock, dir, pc, req, pos, video_size, timestamp, txt_filepath, buf, txt, ioerr, resp, lastWriter>>
    /\ UNCHANGED listVars

----------------------------------------------------------------------------
(* GET /files *)

\* Line 165: os.listdir(UPLOAD_DIR).
ListDir ==
    /\ lpc = "idle"
    /\ lnames' = DOMAIN dir
    /\ lseen' = Cardinality(RegularFiles(dir))
    /\ lfiles' = <<>>
    /\ lpc' = "scan"
    /\ UNCHANGED <<clock, dir, lastWriter, lresp>>
    /\ UNCHANGED reqVars

\* Lines 166-172: what one name of the listing adds to files.
Entry(d, name) ==
    IF IsFile(d, name) THEN <<[name |-> name, size |-> Len(d[name].data)]>> ELSE <<>>

\* One iteration of the loop, in the (arbitrary but fixed) order of listdir.
ListStat ==
    /\ lpc = "scan"
    /\ lnames # {}
    /\ LET name == CHOOSE n \in lnames : TRUE IN
        /\ lfiles' = lfiles \o Entry(dir, name)
        /\ lnames' = lnames \ {name}
    /\ UNCHANGED <<clock, dir, lastWriter, lpc, lseen, lresp>>
    /\ UNCHANGED reqVars

\* Lines 174-177.
ListDone ==
    /\ lpc = "scan"
    /\ lnames = {}
    /\ lresp' = [code |-> 200, files |-> lfiles, count |-> Len(lfiles)]
    /\ lpc' = "done"
    /\ UNCHANGED <<clock, dir, lastWriter, lnames, lfiles, lseen>>
    /\ UNCHANGED reqVars

----------------------------------------------------------------------------
(* The environment *)

\* The operator makes a subdirectory in the upload directory.
MakeSubdir ==
    /\ <<"archive">> \notin DOMAIN dir
    /\ dir' = Put(dir, <<"archive">>, Directory)
    /\ UNCHANGED <<clock, lastWriter>>
    /\ UNCHANGED reqVars
    /\ UNCHANGED listVars

\* datetime.now(): the second changes.
Tick ==
    /\ clock < MaxClock
    /\ clock' = clock + 1
    /\ UNCHANGED <<dir, lastWriter>>
    /\ UNCHANGED reqVars
    /\ UNCHANGED listVars

----------------------------------------------------------------------------
(* Specifications *)

Handle(r) ==
    \/ Timestamp(r)
    \/ VidOpen(r)
    \/ VidWrite(r)
    \/ TxtOpen(r)
    \/ TxtWrite(r)
    \/ Respond(r)
    \/ Download(r)

\* One submission of any shape, a listing, the operator and the clock.
Next ==
    \/ \E r \in Procs : SubmitAny(r) \/ Handle(r)
    \/ ListDir
    \/ ListStat
    \/ ListDone
    \/ MakeSubdir
    \/ Tick

Spec == Init /\ [][Next]_vars

\* Concurrent submissions.
NextRace ==
    \/ \E r \in Procs : SubmitRace(r) \/ Handle(r)
    \/ Tick

SpecRace == Init /\ [][NextRace]_vars

----------------------------------------------------------------------------
(* Properties *)

Done(r) == pc[r] = "done"

Quiet == \A r \in Procs : pc[r] \in {"idle", "done"}

\* The environment has failed no file operation.
NoIOFailure == \A r \in Procs : ioerr[r] = "none"

\* The media type of the request is multipart/form-data.
IsMultipart(s) == s.ctype # <<>> /\ s.ctype[1] = "multipart/form-data"

\* The request passes every check of the input contract.
WellFormed(s) ==
    /\ IsMultipart(s)
    /\ s.data.present /\ s.data.wellformed
    /\ s.data.meta.type = "object"
    /\ Required \subseteq s.data.meta.has
    /\ s.video.present /\ s.video.filename # ""

\* A valid submission: well formed, gps_location with latitude and longitude.
ValidSubmission(s) == WellFormed(s) /\ s.data.meta.gps = GpsKeys

\* The request has taken its timestamp.
Stamped(r) ==
    \/ pc[r] \in {"vopen", "vwrite", "topen", "twrite", "respond"}
    \/ pc[r] = "done" /\ (resp[r].code = 200 \/ ioerr[r] # "none")

\* The submissions that map to the names made of id and ts.
KeyUsers(id, ts) ==
    {r \in Procs : Stamped(r) /\ req[r].data.meta.id = id /\ timestamp[r] = ts}

Unshared(r) == KeyUsers(req[r].data.meta.id, timestamp[r]) = {r}

Transcripts(d) == {n \in RegularFiles(d) : n[1] = "device_data"}

\* C1: a valid submission without I/O failure gets 200, leaves exactly one
\* video file and one transcript file in the directory, and the response
\* names them, both made of the submission's device_id and one timestamp.
C1_TwoFilesOneTimestamp ==
    \A r \in Procs :
        (Done(r) /\ ValidSubmission(req[r]) /\ ioerr[r] = "none") =>
            /\ resp[r].code = 200
            /\ \E ts \in 0..MaxClock :
                /\ resp[r].video_saved_as = VideoFilename(req[r].data.meta.id, ts)
                /\ resp[r].data_saved_as = TxtFilename(req[r].data.meta.id, ts)
            /\ RegularFiles(dir) = {resp[r].video_saved_as, resp[r].data_saved_as}
            /\ Cardinality(RegularFiles(dir)) = 2

\* The second changes between the timestamp and the transcript write.
C1_Witness ==
    \E r \in Procs :
        /\ Done(r) /\ ValidSubmission(req[r]) /\ ioerr[r] = "none"
        /\ resp[r].code = 200
        /\ resp[r].received_at > timestamp[r]
        /\ Cardinality(RegularFiles(dir)) = 2

\* C2: a multipart request whose data decodes as JSON but lacks a required
\* field gets 400 naming the first missing field of the fixed order, and
\* the directory holds no new file.
C2_FirstMissingNamed ==
    \A r \in Procs :
        (/\ Done(r)
         /\ IsMultipart(req[r])
         /\ req[r].data.present /\ req[r].data.wellformed
         /\ ~(Required \subseteq req[r].data.meta.has)) =>
            /\ resp[r].code = 400
            /\ resp[r].error =
                <<"Missing required field",
                  required_fields[CHOOSE i \in 1..Len(required_fields) :
                      /\ required_fields[i] \notin req[r].data.meta.has
                      /\ \A j \in 1..(i - 1) : required_fields[j] \in req[r].data.meta.has]>>
            /\ RegularFiles(dir) = {}

\* The transcript write of request r failed by an exception raised while the
\* metadata was formatted: gps_location lacks latitude or longitude.
TranscriptFailed(r) ==
    /\ Done(r) /\ WellFormed(req[r])
    /\ ioerr[r] = "none"
    /\ req[r].data.meta.gps # GpsKeys

\* C4: when the transcript write fails the response is 200 received_ok with
\* data_saved_as "failed", the video is stored and is the only new file: no
\* transcript file, complete or partial, is left behind.
C4_DegradedSuccess ==
    \A r \in Procs :
        TranscriptFailed(r) =>
            /\ resp[r].code = 200
            /\ resp[r].status = "received_ok"
            /\ resp[r].data_saved_as = Failed
            /\ IsFile(dir, resp[r].video_saved_as)
            /\ dir[resp[r].video_saved_as].data = req[r].video.payload
            /\ RegularFiles(dir) = {resp[r].video_saved_as}

\* The content type passes the check of line 70.
CtOk(s) == s.ctype # <<>> /\ HasMultipart(s.ctype)

\* The response reports the first failing check of the order content type
\* (as tested by line 70), data part, JSON, required fields, video part,
\* filename.
CheckOrder ==
    \A r \in Procs :
        Done(r) =>
            LET s == req[r]
                m == req[r].data.meta
                e == resp[r]
            IN  /\ ~CtOk(s) =>
                    e = BadRequest(<<"Content type must be multipart/form-data">>)
                /\ (CtOk(s) /\ ~s.data.present) =>
                    e = BadRequest(<<"Missing 'data' part">>)
                /\ (CtOk(s) /\ s.data.present /\ ~s.data.wellformed) =>
                    e = BadRequest(<<"Invalid JSON in 'data' part">>)
                /\ (/\ CtOk(s) /\ s.data.present /\ s.data.wellformed
                    /\ m.type \in {"object", "array", "string"}
                    /\ ~(Required \subseteq m.has)) =>
                        /\ e.code = 400
                        /\ e.error[1] = "Missing required field"
                /\ (/\ CtOk(s) /\ s.data.present /\ s.data.wellformed
                    /\ Required \subseteq m.has
                    /\ ~s.video.present) =>
                        e = BadRequest(<<"Missing 'liveness_video' file">>)
                /\ (/\ CtOk(s) /\ s.data.present /\ s.data.wellformed
                    /\ Required \subseteq m.has
                    /\ s.video.present /\ s.video.filename = "") =>
                        e = BadRequest(<<"No video file selected">>)

\* C5: a request whose content type is absent or is not multipart/form-data
\* gets 400 InvalidContentType whatever else it holds, and the checks run in
\* the fixed order.
C5_ContentTypeFirst ==
    /\ \A r \in Procs :
        (Done(r) /\ ~IsMultipart(req[r])) =>
            resp[r] = BadRequest(<<"Content type must be multipart/form-data">>)
    /\ CheckOrder

C7_ListingWholeFiles ==
    lpc = "done" =>
        /\ lresp.code = 200
        /\ lresp.count = Len(lresp.files)
        /\ lresp.count = lseen
        /\ (Quiet /\ NoIOFailure) =>
            \A i \in 1..Len(lresp.files) :
                lresp.files[i].size = Len(dir[lresp.files[i].name].data)

\* C8: two successful submissions of one device in one second get the same
\* names, and each file holds what its last writer wrote.
C8_LastWriteWins ==
    \A r1, r2 \in Procs :
        (/\ r1 # r2
         /\ Done(r1) /\ Done(r2)
         /\ ValidSubmission(req[r1]) /\ ValidSubmission(req[r2])
         /\ ioerr[r1] = "none" /\ ioerr[r2] = "none"
         /\ req[r1].data.meta.id = req[r2].data.meta.id
         /\ timestamp[r1] = timestamp[r2]) =>
            /\ resp[r1].code = 200 /\ resp[r2].code = 200
            /\ resp[r1].video_saved_as = resp[r2].video_saved_as
            /\ resp[r1].data_saved_as = resp[r2].data_saved_as
            /\ dir[resp[r1].video_saved_as].data =
                    req[lastWriter[resp[r1].video_saved_as]].video.payload
            /\ dir[resp[r1].data_saved_as].data =
                    buf[lastWriter[resp[r1].data_saved_as]]

\* C9: a response is sent exactly when the handler ends and is a 200, 400 or
\* 500; an exception outside the transcript write gives 500 with the raised
\* message, and after a failed video save no transcript is written.
C9_NoEscape ==
    \A r \in Procs :
        /\ ~Done(r) => resp[r] = NoResponse
        /\ Done(r) =>
            /\ resp[r].code \in {200, 400, 500}
            /\ ioerr[r] \in {"vopen", "vwrite"} =>
                /\ resp[r].code = 500
                /\ resp[r].details = IOError
                /\ Transcripts(dir) = {}
                /\ buf[r] = <<>>
            /\ (/\ CtOk(req[r]) /\ req[r].data.present /\ req[r].data.wellformed
                /\ req[r].data.meta.type \in {"array", "string"}
                /\ Required \subseteq req[r].data.meta.has
                /\ req[r].video.present /\ req[r].video.filename # "") =>
                    /\ resp[r].code = 500
                    /\ resp[r].details = NotSubscriptable
            /\ (/\ CtOk(req[r]) /\ req[r].data.present /\ req[r].data.wellformed
                /\ req[r].data.meta.type \in {"number", "null"}) =>
                    /\ resp[r].code = 500
                    /\ resp[r].details = NotIterable

\* The video save fails after the file was opened.
C9_Witness ==
    \E r \in Procs :
        /\ Done(r) /\ ioerr[r] = "vwrite"
        /\ resp[r].code = 500
        /\ IsFile(dir, VideoNameOf(r))

\* The transcript lines speak of submission r.
Describes(lines, r) ==
    \A i \in 1..Len(lines) :
        /\ lines[i][1] = "Video Filename" => lines[i][2] = req[r].video.filename
        /\ lines[i][1] = "Video Size" => lines[i][2] = Len(req[r].video.payload)

\* The transcript records something about a video.
RecordsVideo(lines) ==
    \E i \in 1..Len(lines) : lines[i][1] \in {"Video Filename", "Video Size"}

\* What the transcript named n records about the video is true of one
\* submission of that key, whose bytes the video file of the key holds.
PairConsistent(n) ==
    RecordsVideo(dir[n].data) =>
        \E r \in KeyUsers(n[2], n[3]) :
            /\ IsFile(dir, VideoFilename(n[2], n[3]))
            /\ dir[VideoFilename(n[2], n[3])].data = req[r].video.payload
            /\ Describes(dir[n].data, r)

\* C10 as stated: once no request is in progress, every transcript describes
\* the video stored under the same key (here already when no file operation
\* has failed).
C10_PairConsistent ==
    (Quiet /\ NoIOFailure) => \A n \in Transcripts(dir) : PairConsistent(n)

\* C10 amended: the same for every key that only one submission maps to.
C10_PairConsistentUnshared ==
    Quiet =>
        \A n \in Transcripts(dir) :
            Cardinality(KeyUsers(n[2], n[3])) = 1 => PairConsistent(n)

\* Two submissions of different keys, both with a complete transcript.
C10_Witness ==
    /\ Quiet
    /\ \E n1, n2 \in Transcripts(dir) :
        /\ n1 # n2
        /\ Cardinality(KeyUsers(n1[2], n1[3])) = 1
        /\ Cardinality(KeyUsers(n2[2], n2[3])) = 1
        /\ Len(dir[n1].data) = 17
        /\ Len(dir[n2].data) = 17

\* The file named by video_saved_as holds the submitted bytes and video_size
\* is their number.
Stored(r) ==
    /\ resp[r].video_size = Len(req[r].video.payload)
    /\ IsFile(dir, resp[r].video_saved_as)
    /\ dir[resp[r].video_saved_as].data = req[r].video.payload

\* The follow-up download, once made, returned the submitted bytes.
Fetched(r) ==
    got[r] # NoDownload => got[r] = [code |-> 200, body |-> req[r].video.payload]

\* C3 as stated: when a submission is answered 200 the stored file holds the
\* submitted bytes and video_size is their number, and the download that
\* follows returns those bytes (here already when no file operation fails).
C3_RoundTrip ==
    [][\A r \in Procs :
        /\ (Respond(r) /\ NoIOFailure) => Stored(r)'
        /\ (Download(r) /\ NoIOFailure) => Fetched(r)']_vars

\* C3 amended: the same, from the response on, for every successful submission
\* whose device_id and second no other submission shares.
C3_RoundTripUnshared ==
    \A r \in Procs :
        (Done(r) /\ resp[r].code = 200 /\ Unshared(r)) => Stored(r) /\ Fetched(r)

\* A downloaded two-byte video while another submission has been stored.
C3_Witness ==
    \E r, q \in Procs :
        /\ r # q
        /\ Done(r) /\ resp[r].code = 200 /\ Unshared(r)
        /\ got[r].code = 200
        /\ Len(req[r].video.payload) = 2
        /\ Done(q) /\ resp[q].code = 200

====
